---- MODULE Spec2Model ----
(***************************************************************************)
(* Invite attribution and role assignment of the Discord onboarding bot    *)
(* (src/src/index.ts): the per-guild invite cache, the guildMemberAdd and  *)
(* guildMemberUpdate handlers, asignarRolPorInvite, and the                *)
(* POST /generate-invite route that writes the invites table.              *)
(*                                                                         *)
(* Every async handler is cut at its awaits: one action per resumption,    *)
(* named after the call whose result it consumes.  The code between two    *)
(* awaits runs in one step (Node runs it without interruption).            *)
(***************************************************************************)
EXTENDS Integers, Sequences, FiniteSets, TLC

\* ---------------------------------------------------------------- bounds
MaxCodes == 2      \* invite codes the platform hands out: 1..MaxCodes
MaxUses  == 1      \* largest use count an invite list reports
MaxTime  == 1      \* the clock runs 0..MaxTime
MaxRows  == 2      \* rows of the invites table in the drawn initial tables

\* INVITE_TTL_SECONDS, in clock ticks
inviteTTLSeconds == 1

\* ---------------------------------------------------------------- domains
Codes    == 1..MaxCodes
NoCode   == 0                      \* usedCode = null
Null     == -1                     \* SQL NULL / JS null for numbers
Times    == 0..MaxTime
Guilds   == {"g1", "g2"}
HomeGuild == "g1"                  \* process.env.GUILD_ID
Members  == {"m1", "m2"}
NoMember == "none"
Emails   == {"a@x", "b@x"}
NoEmail  == ""                     \* a request body without email
RoleIds  == {"r1", "r9"}          \* role ids a request may carry
NoRole   == ""
Procs    == {1, 2}                 \* handlers in flight at once

\* member.guild.roles.cache: r1, at position 2; r9 is no role
\* of the guild.
GuildRoles == {"r1"}
RolePosition(r) == 2
\* botMember.roles.highest.position, as a fetch may report it
BotPositions == {1, 2, 3}

\* ---------------------------------------------------------------- Map<string, number>
\* A JS Map is a sequence of entries with distinct keys, in insertion order.
Entry(c, u) == [code |-> c, uses |-> u]

RECURSIVE SeqsUpTo(_, _)
SeqsUpTo(S, n) ==
    IF n = 0 THEN {<<>>}
    ELSE LET shorter == SeqsUpTo(S, n - 1)
         IN  shorter \cup {Append(s, x) : s \in {t \in shorter : Len(t) = n - 1}, x \in S}

DistinctKeys(m) == \A i, j \in DOMAIN m : m[i].code = m[j].code => i = j

\* What guild.invites.fetch() may resolve to: invites with uses a number or null.
Collections == {m \in SeqsUpTo({Entry(c, u) : c \in Codes, u \in {Null} \cup (0..MaxUses)}, MaxCodes) :
                   DistinctKeys(m)}

MapHas(m, c) == \E i \in DOMAIN m : m[i].code = c
MapGet(m, c) == m[CHOOSE i \in DOMAIN m : m[i].code = c].uses
\* Map.set: an existing key keeps its place, a new key goes last
MapSet(m, c, u) ==
    IF MapHas(m, c)
    THEN [i \in DOMAIN m |-> IF m[i].code = c THEN Entry(c, u) ELSE m[i]]
    ELSE Append(m, Entry(c, u))
\* (a faulty variant, for comparison: Map.clear)
MapClear(m, c) == <<>>
MapDelete(m, c) == SelectSeq(m, LAMBDA e : e.code /= c)

\* inv.uses ?? 0
UsesOrZero(u) == IF u = Null THEN 0 ELSE u
\* (a faulty variant, for comparison: a code the cache lacks is passed over)
OldUsesCommonOnly(old, c) == IF MapHas(old, c) THEN MapGet(old, c) ELSE MaxUses + 1
\* oldInviteCache.get(code) ?? 0
OldUses(old, c) == IF MapHas(old, c) THEN MapGet(old, c) ELSE 0

\* invitesCollection.forEach(inv => map.set(inv.code, inv.uses ?? 0))
ToUsesMap(coll) == [i \in DOMAIN coll |-> Entry(coll[i].code, UsesOrZero(coll[i].uses))]

\* ---------------------------------------------------------------- attribution scans
\* Paso 1: the first invite of the fetched collection whose uses exceed the
\* cached uses
\* (a faulty variant, for comparison: >= for >)
IncrementHitsGE(old, new) ==
    {i \in DOMAIN new : UsesOrZero(new[i].uses) >= OldUses(old, new[i].code)}
IncrementHits(old, new) ==
    {i \in DOMAIN new : UsesOrZero(new[i].uses) > OldUses(old, new[i].code)}
Min(S) == CHOOSE x \in S : \A y \in S : x <= y
IncrementScan(old, new) ==
    IF IncrementHits(old, new) = {} THEN NoCode
    ELSE new[Min(IncrementHits(old, new))].code

\* Paso 2: the first cached code that the fetched collection no longer has
\* (a faulty variant, for comparison: the negation of has() dropped)
VanishedHitsKept(old, new) == {i \in DOMAIN old : MapHas(new, old[i].code)}
VanishedHits(old, new) == {i \in DOMAIN old : ~MapHas(new, old[i].code)}
DisappearanceScan(old, new) ==
    IF VanishedHits(old, new) = {} THEN NoCode
    ELSE old[Min(VanishedHits(old, new))].code

\* (a faulty variant, for comparison: Paso 2 before Paso 1)
ScanCodeVanishedFirst(old, new) ==
    IF DisappearanceScan(old, new) /= NoCode THEN DisappearanceScan(old, new)
    ELSE IncrementScan(old, new)
\* usedCode after the two scans (before the ledger fallback)
ScanCode(old, new) ==
    IF IncrementScan(old, new) /= NoCode THEN IncrementScan(old, new)
    ELSE DisappearanceScan(old, new)

\* ---------------------------------------------------------------- the invites table
\* One row per issued invite.  expires_at is written by the INSERT and never
\* read back (the route recomputes it from created_at), so it is no column here.
Row(c, r, e, st, cr, us, m) ==
    [code |-> c, roleId |-> r, email |-> e, status |-> st,
     createdAt |-> cr, usedAt |-> us, memberId |-> m]

\* SELECT role_id, email FROM invites WHERE invite_code = $1 AND status = 'PENDING'
\* (a faulty variant, for comparison: the status test left out of the SELECT)
AnyByCode(t, c) == {i \in DOMAIN t : t[i].code = c}
PendingByCode(t, c) == {i \in DOMAIN t : t[i].code = c /\ t[i].status = "PENDING"}

\* SELECT invite_code FROM invites WHERE status = 'PENDING'
\*   ORDER BY created_at DESC LIMIT 1      (rows tied on created_at: any of them)
\* (a faulty variant, for comparison: ORDER BY created_at ASC)
OldestPending(t) ==
    {i \in DOMAIN t : /\ t[i].status = "PENDING"
                      /\ \A j \in DOMAIN t :
                            t[j].status = "PENDING" => t[i].createdAt <= t[j].createdAt}
MostRecentPending(t) ==
    {i \in DOMAIN t : /\ t[i].status = "PENDING"
                      /\ \A j \in DOMAIN t :
                            t[j].status = "PENDING" => t[j].createdAt <= t[i].createdAt}

\* SELECT invite_code, created_at FROM invites WHERE email = $1 AND status = 'PENDING'
PendingByEmail(t, e) == {i \in DOMAIN t : t[i].email = e /\ t[i].status = "PENDING"}

\* The post-screening query.  Inner SELECT: the email of the latest created row
\* with member_id NULL and status PENDING or USED.
ChainRows(t) ==
    {i \in DOMAIN t : t[i].memberId = NoMember /\ t[i].status \in {"PENDING", "USED"}}
\* (a faulty variant, for comparison: ORDER BY created_at ASC in the inner SELECT)
ChainTails(t) ==
    {i \in ChainRows(t) : \A j \in ChainRows(t) : t[i].createdAt <= t[j].createdAt}
ChainHeads(t) ==
    {i \in ChainRows(t) : \A j \in ChainRows(t) : t[j].createdAt <= t[i].createdAt}
\* Outer WHERE, for one value e of the inner SELECT
LatestInviteMatches(t, m, e) ==
    {i \in DOMAIN t : t[i].memberId = m \/ (t[i].email = e /\ t[i].status = "PENDING")}
\* ORDER BY used_at DESC LIMIT 1: PostgreSQL sorts NULL first in DESC order
FirstByUsedAtDesc(t, S) ==
    IF \E i \in S : t[i].usedAt = Null
    THEN {i \in S : t[i].usedAt = Null}
    ELSE {i \in S : \A j \in S : t[j].usedAt <= t[i].usedAt}
\* The rows the query may return as rows[0] (empty: no row)
LatestInvite(t, m) ==
    IF ChainHeads(t) = {}
    THEN FirstByUsedAtDesc(t, LatestInviteMatches(t, m, NoEmail))
    ELSE UNION {FirstByUsedAtDesc(t, LatestInviteMatches(t, m, t[h].email)) : h \in ChainHeads(t)}

\* UPDATE invites SET status='USED', used_at=$1, member_id=$2 WHERE invite_code=$3
\* (a faulty variant, for comparison: the UPDATE without its WHERE clause)
MarkUsedEveryRow(t, c, m, at) ==
    [i \in DOMAIN t |-> [t[i] EXCEPT !.status = "USED", !.usedAt = at, !.memberId = m]]
MarkUsed(t, c, m, at) ==
    [i \in DOMAIN t |->
        IF t[i].code = c
        THEN [t[i] EXCEPT !.status = "USED", !.usedAt = at, !.memberId = m]
        ELSE t[i]]

\* UPDATE invites SET status = 'EXPIRED' WHERE invite_code = $1
MarkExpired(t, c) ==
    [i \in DOMAIN t |-> IF t[i].code = c THEN [t[i] EXCEPT !.status = "EXPIRED"] ELSE t[i]]

\* INSERT INTO invites (...) VALUES ($1, $2, $3, 'PENDING', $5, $6)
InsertPending(t, c, r, e, at) == Append(t, Row(c, r, e, "PENDING", at, Null, NoMember))

\* new Date() < expiresAt, expiresAt = created_at + TTL
StillValid(createdAt, at) == at < createdAt + inviteTTLSeconds

\* ---------------------------------------------------------------- state
VARIABLES
    inviteCache,         \* guildId -> the cached Map, or no entry
    invites,             \* the invites table, rows in insertion order
    memberRoles,         \* <<member, role>> pairs the platform holds
    clock,               \* new Date()
    issued,              \* invites created by createInvite so far
    started,             \* the ready handler has finished (API routes are up)
    lastPopulate,        \* how populateGuildInvites ended: not yet, cached, failed
    handler,             \* per handler slot: its position and locals
    lastJoin,            \* since the latest guildMemberAdd event arrived: the
                         \* snapshots a listener compared and the usedCode it
                         \* logged, or the rejection that left a listener
    lastAssign           \* since the latest member event arrived: the member and
                         \* code asignarRolPorInvite returned for, and how

vars == <<inviteCache, invites, memberRoles, clock, issued, started, lastPopulate, handler,
          lastJoin, lastAssign>>

NoEntry == [has |-> FALSE, map |-> <<>>]
CacheEntry(m) == [has |-> TRUE, map |-> m]

\* A slot that runs nothing
IdleFrame ==
    [kind |-> "none", pc |-> "idle",
     guild |-> HomeGuild, member |-> NoMember, pending |-> FALSE, wasPending |-> FALSE,
     old |-> <<>>, oldIsCache |-> FALSE, new |-> <<>>, cachedAtFetch |-> {},
     code |-> NoCode, roleId |-> NoRole, botPos |-> Null,
     email |-> NoEmail, reqRole |-> NoRole, existing |-> NoCode,
     newCode |-> NoCode, createdAt |-> Null]

\* Slots only tell handlers in flight apart: a new handler takes the lowest
\* free one
Free(p) == handler[p].pc = "idle" /\ \A q \in Procs : handler[q].pc = "idle" => p <= q
\* The handler returns: its slot is free again
Return == IdleFrame
\* Slot p goes on with frame f, the other slots as in hs
Settle(hs, p, f) == handler' = [hs EXCEPT ![p] = f]

NoJoin == [result |-> "none", old |-> <<>>, new |-> <<>>, fallback |-> "skipped",
           usedCode |-> NoCode, pending |-> FALSE]
NoAssign == [outcome |-> "none", member |-> NoMember, code |-> NoCode]
\* asignarRolPorInvite returns: which log line it ended on
Ended(f, outcome) == [outcome |-> outcome, member |-> f.member, code |-> f.code]

\* Lines 72-124: the snapshots compared, how the fallback query went (skipped,
\* found a row, empty, failed) and the usedCode reached
Logged(f, fallback, usedCode) ==
    [result |-> "attributed", old |-> f.old, new |-> f.new, fallback |-> fallback,
     usedCode |-> usedCode, pending |-> f.pending]

Init ==
    /\ inviteCache = [g \in Guilds |-> NoEntry]
    /\ invites = <<>>
    /\ memberRoles = {}
    /\ clock = 0
    /\ issued = 0
    /\ started = FALSE
    /\ lastPopulate = "none"
    /\ handler = [p \in Procs |-> IdleFrame]
    /\ lastJoin = NoJoin
    /\ lastAssign = NoAssign

\* ---------------------------------------------------------------- cache writes
\* (a faulty variant, for comparison: a replaced Map is emptied under the
\* handlers that hold it)
ReplacedEmptied(hs, g) ==
    [q \in DOMAIN hs |->
        IF hs[q].guild = g /\ hs[q].oldIsCache
        THEN [hs[q] EXCEPT !.oldIsCache = FALSE, !.old = <<>>]
        ELSE hs[q]]
\* inviteCache.set(guildId, map): the guild gets a new Map object.  A handler
\* that read the previous object as oldInviteCache keeps it, unchanged from now.
Replaced(hs, g) ==
    [q \in DOMAIN hs |->
        IF hs[q].guild = g THEN [hs[q] EXCEPT !.oldIsCache = FALSE] ELSE hs[q]]
\* The cached Map object of g is changed in place to m: a handler suspended in
\* its fetch holds the same object as oldInviteCache and sees the change.
Mutated(hs, g, m) ==
    [q \in DOMAIN hs |->
        IF hs[q].guild = g /\ hs[q].oldIsCache THEN [hs[q] EXCEPT !.old = m] ELSE hs[q]]

\* (a faulty variant, for comparison: the fetched invites are set into the cached Map, nothing is dropped)
RECURSIVE SetAll(_, _)
SetAll(m, coll) ==
    IF coll = <<>> THEN m
    ELSE SetAll(MapSet(m, Head(coll).code, UsesOrZero(Head(coll).uses)), Tail(coll))
MergedCache(cache, g, coll) == [cache EXCEPT ![g] = CacheEntry(SetAll(cache[g].map, coll))]
\* inviteCache.set(member.guild.id, currentInvitesMap)
RefreshedCache(cache, g, coll) == [cache EXCEPT ![g] = CacheEntry(ToUsesMap(coll))]

\* ---------------------------------------------------------------- ready / populateGuildInvites
\* client.once('ready'): populateGuildInvites(GUILD_ID), then setupApiRoutes
ReadyPopulated(coll) ==
    /\ ~started
    /\ started' = TRUE
    /\ lastPopulate' = "cached"
    /\ inviteCache' = RefreshedCache(inviteCache, HomeGuild, coll)
    /\ handler' = Replaced(handler, HomeGuild)
    /\ UNCHANGED <<invites, memberRoles, clock, issued, lastJoin, lastAssign>>

\* (a faulty variant, for comparison: the catch stores an empty Map)
ReadyPopulateFailedCleared ==
    /\ ~started
    /\ started' = TRUE
    /\ lastPopulate' = "failed"
    /\ inviteCache' = RefreshedCache(inviteCache, HomeGuild, <<>>)
    /\ handler' = Replaced(handler, HomeGuild)
    /\ UNCHANGED <<invites, memberRoles, clock, issued, lastJoin, lastAssign>>

\* guilds.fetch or invites.fetch rejects: caught and logged
ReadyPopulateFailed ==
    /\ ~started
    /\ started' = TRUE
    /\ lastPopulate' = "failed"
    /\ UNCHANGED <<inviteCache, invites, memberRoles, clock, issued, handler, lastJoin, lastAssign>>

\* ---------------------------------------------------------------- inviteCreate / inviteDelete
NoGuild == ""
InviteCreate(g, c, u) ==
    /\ IF g = NoGuild \/ c = NoCode
       THEN UNCHANGED <<inviteCache, handler>>
       ELSE LET m == MapSet(inviteCache[g].map, c, UsesOrZero(u))
            IN  /\ inviteCache' = [inviteCache EXCEPT ![g] = CacheEntry(m)]
                /\ handler' = IF inviteCache[g].has THEN Mutated(handler, g, m) ELSE handler
    /\ UNCHANGED <<invites, memberRoles, clock, issued, started, lastPopulate, lastJoin, lastAssign>>

InviteDelete(g, c) ==
    /\ IF g = NoGuild \/ c = NoCode \/ ~inviteCache[g].has
       THEN UNCHANGED <<inviteCache, handler>>
       ELSE LET m == MapDelete(inviteCache[g].map, c)
            IN  /\ inviteCache' = [inviteCache EXCEPT ![g] = CacheEntry(m)]
                /\ handler' = Mutated(handler, g, m)
    /\ UNCHANGED <<invites, memberRoles, clock, issued, started, lastPopulate, lastJoin, lastAssign>>

\* ---------------------------------------------------------------- guildMemberAdd
\* Lines 119-133: what the handler does once usedCode is settled and the cache
\* is refreshed: return on no code, return on a pending member, else call
\* asignarRolPorInvite(member, usedCode)
\* (a faulty variant, for comparison: member.pending not looked at)
AfterAttributionUngated(f, usedCode) ==
    IF usedCode = NoCode THEN Return
    ELSE [IdleFrame EXCEPT !.kind = "join", !.pc = "select", !.guild = f.guild,
                           !.member = f.member, !.code = usedCode, !.old = f.old]
\* (a faulty variant, for comparison: the return on !usedCode left out)
AfterAttributionUnchecked(f, usedCode) ==
    IF f.pending THEN Return
    ELSE [IdleFrame EXCEPT !.kind = "join", !.pc = "select", !.guild = f.guild,
                           !.member = f.member, !.code = usedCode, !.old = f.old]
AfterAttribution(f, usedCode) ==
    IF usedCode = NoCode THEN Return
    ELSE IF f.pending THEN Return
    ELSE [IdleFrame EXCEPT !.kind = "join", !.pc = "select", !.guild = f.guild,
                           !.member = f.member, !.code = usedCode, !.old = f.old]

\* The event arrives: oldInviteCache is read, invites.fetch() is awaited
MemberAdd(p, g, m, pend) ==
    /\ Free(p)
    /\ Settle(handler, p,
          [IdleFrame EXCEPT !.kind = "join", !.pc = "fetch", !.guild = g,
                            !.member = m, !.pending = pend,
                            !.old = inviteCache[g].map,
                            !.oldIsCache = inviteCache[g].has])
    /\ lastJoin' = NoJoin
    /\ lastAssign' = NoAssign
    /\ UNCHANGED <<inviteCache, invites, memberRoles, clock, issued, started, lastPopulate>>

\* invites.fetch() resolves with coll: both scans run; a code found refreshes
\* the cache at once, none found goes on to the ledger query (cachedAtFetch
\* keeps, for the record, the codes the guild's cache holds at this moment)
JoinFetched(p, coll) ==
    /\ handler[p].pc = "fetch"
    /\ LET f == [handler[p] EXCEPT !.new = coll, !.oldIsCache = FALSE]
           usedCode == ScanCode(f.old, coll)
       IN  IF usedCode /= NoCode
           THEN /\ inviteCache' = RefreshedCache(inviteCache, f.guild, coll)
                /\ Settle(Replaced(handler, f.guild), p, AfterAttribution(f, usedCode))
                /\ lastJoin' = Logged(f, "skipped", usedCode)
           ELSE /\ Settle(handler, p, [f EXCEPT !.pc = "fallback",
                                                 !.cachedAtFetch =
                                                    {c \in Codes : MapHas(inviteCache[f.guild].map, c)}])
                /\ UNCHANGED <<inviteCache, lastJoin>>
    /\ UNCHANGED <<invites, memberRoles, clock, issued, started, lastPopulate, lastAssign>>

\* invites.fetch() rejects: line 60 is outside every try, the rejection leaves
\* the listener
JoinFetchRejected(p) ==
    /\ handler[p].pc = "fetch"
    /\ Settle(handler, p, Return)
    /\ lastJoin' = [NoJoin EXCEPT !.result = "rejected"]
    /\ UNCHANGED <<inviteCache, invites, memberRoles, clock, issued, started, lastPopulate, lastAssign>>

\* The fallback query resolves: its first row, if any, is usedCode
JoinFallback(p) ==
    /\ handler[p].pc = "fallback"
    /\ LET f == handler[p]
       IN  /\ inviteCache' = RefreshedCache(inviteCache, f.guild, f.new)
           /\ IF MostRecentPending(invites) = {}
              THEN /\ Settle(Replaced(handler, f.guild), p, AfterAttribution(f, NoCode))
                   /\ lastJoin' = Logged(f, "empty", NoCode)
              ELSE \E i \in MostRecentPending(invites) :
                     /\ Settle(Replaced(handler, f.guild), p,
                               AfterAttribution(f, invites[i].code))
                     /\ lastJoin' = Logged(f, "found", invites[i].code)
    /\ UNCHANGED <<invites, memberRoles, clock, issued, started, lastPopulate, lastAssign>>

\* The fallback query rejects: caught, usedCode stays null
JoinFallbackFailed(p) ==
    /\ handler[p].pc = "fallback"
    /\ LET f == handler[p]
       IN  /\ inviteCache' = RefreshedCache(inviteCache, f.guild, f.new)
           /\ Settle(Replaced(handler, f.guild), p, AfterAttribution(f, NoCode))
           /\ lastJoin' = Logged(f, "failed", NoCode)
    /\ UNCHANGED <<invites, memberRoles, clock, issued, started, lastPopulate, lastAssign>>

\* ---------------------------------------------------------------- asignarRolPorInvite
\* The SELECT resolves.  No PENDING row: return.  Role not in the guild's role
\* cache: return.  Otherwise members.fetch(bot) is awaited.
RoleSelected(p) ==
    /\ handler[p].pc = "select"
    /\ LET f == handler[p]
           rows == PendingByCode(invites, f.code)
       IN  IF rows = {}
           THEN /\ Settle(handler, p, Return)
                /\ lastAssign' = Ended(f, "notPending")
           ELSE \E i \in rows :
                  IF invites[i].roleId \in GuildRoles
                  THEN /\ Settle(handler, p,
                                 [f EXCEPT !.pc = "fetchBot", !.roleId = invites[i].roleId])
                       /\ UNCHANGED lastAssign
                  ELSE /\ Settle(handler, p, Return)
                       /\ lastAssign' = Ended(f, "roleMissing")
    /\ UNCHANGED <<inviteCache, invites, memberRoles, clock, issued, started, lastPopulate, lastJoin>>

\* (a faulty variant, for comparison: > for >=)
AboveBotStrict(roleId, botPos) == RolePosition(roleId) > botPos
\* role.position >= botMember.roles.highest.position
AboveBot(roleId, botPos) == RolePosition(roleId) >= botPos

\* members.fetch resolves with the bot's highest position
BotFetched(p, botPos) ==
    /\ handler[p].pc = "fetchBot"
    /\ LET f == handler[p]
       IN  IF AboveBot(f.roleId, botPos)
           THEN /\ Settle(handler, p, Return)
                /\ lastAssign' = Ended(f, "hierarchy")
           ELSE /\ Settle(handler, p, [f EXCEPT !.pc = "addRole", !.botPos = botPos])
                /\ UNCHANGED lastAssign
    /\ UNCHANGED <<inviteCache, invites, memberRoles, clock, issued, started, lastPopulate, lastJoin>>

\* (a faulty variant, for comparison: roles.add resolves without the role given)
RoleAddedNothing(p) ==
    /\ handler[p].pc = "addRole"
    /\ Settle(handler, p, [handler[p] EXCEPT !.pc = "update"])
    /\ UNCHANGED <<inviteCache, invites, memberRoles, clock, issued, started, lastPopulate,
                   lastJoin, lastAssign>>

\* member.roles.add(role) resolves: the UPDATE is sent
RoleAdded(p) ==
    /\ handler[p].pc = "addRole"
    /\ memberRoles' = memberRoles \cup {<<handler[p].member, handler[p].roleId>>}
    /\ Settle(handler, p, [handler[p] EXCEPT !.pc = "update"])
    /\ UNCHANGED <<inviteCache, invites, clock, issued, started, lastPopulate, lastJoin, lastAssign>>

\* The UPDATE ... status='USED' runs
UsedWritten(p) ==
    /\ handler[p].pc = "update"
    /\ invites' = MarkUsed(invites, handler[p].code, handler[p].member, clock)
    /\ Settle(handler, p, Return)
    /\ lastAssign' = Ended(handler[p], "assigned")
    /\ UNCHANGED <<inviteCache, memberRoles, clock, issued, started, lastPopulate, lastJoin>>

\* (a faulty variant, for comparison: a failed UPDATE takes the role back)
AssignFailedRollback(p) ==
    /\ handler[p].pc \in {"select", "fetchBot", "addRole", "update"}
    /\ Settle(handler, p, Return)
    /\ lastAssign' = Ended(handler[p], IF handler[p].pc = "update" THEN "writeFailed" ELSE "error")
    /\ memberRoles' = IF handler[p].pc = "update"
                      THEN memberRoles \ {<<handler[p].member, handler[p].roleId>>}
                      ELSE memberRoles
    /\ UNCHANGED <<inviteCache, invites, clock, issued, started, lastPopulate, lastJoin>>

\* Any awaited call of asignarRolPorInvite rejects: caught by its try, logged
AssignFailed(p) ==
    /\ handler[p].pc \in {"select", "fetchBot", "addRole", "update"}
    /\ Settle(handler, p, Return)
    /\ lastAssign' = Ended(handler[p], IF handler[p].pc = "update" THEN "writeFailed" ELSE "error")
    /\ UNCHANGED <<inviteCache, invites, memberRoles, clock, issued, started, lastPopulate, lastJoin>>

\* ---------------------------------------------------------------- guildMemberUpdate
\* (a faulty variant, for comparison: the test of the pending flags left out)
MemberUpdateAlways(p, m, oldPending, newPending) ==
    /\ Free(p)
    /\ Settle(handler, p,
          [IdleFrame EXCEPT !.kind = "gate", !.pc = "latest", !.member = m,
                            !.wasPending = oldPending, !.pending = newPending])
    /\ lastAssign' = NoAssign
    /\ UNCHANGED <<inviteCache, invites, memberRoles, clock, issued, started, lastPopulate, lastJoin>>

\* The event arrives with oldMember.pending and newMember.pending: on a flip
\* from true to false the post-screening query is awaited
MemberUpdate(p, m, oldPending, newPending) ==
    /\ Free(p)
    /\ Settle(handler, p,
          IF oldPending /\ ~newPending
          THEN [IdleFrame EXCEPT !.kind = "gate", !.pc = "latest", !.member = m,
                                 !.wasPending = oldPending, !.pending = newPending]
          ELSE Return)
    /\ lastAssign' = NoAssign
    /\ UNCHANGED <<inviteCache, invites, memberRoles, clock, issued, started, lastPopulate, lastJoin>>

\* The post-screening query resolves
LatestInviteFound(p) ==
    /\ handler[p].pc = "latest"
    /\ LET f == handler[p]
           rows == LatestInvite(invites, f.member)
       IN  IF rows = {}
           THEN Settle(handler, p, Return)
           ELSE \E i \in rows :
                  Settle(handler, p, [f EXCEPT !.pc = "select", !.code = invites[i].code])
    /\ UNCHANGED <<inviteCache, invites, memberRoles, clock, issued, started, lastPopulate, lastJoin, lastAssign>>

\* The post-screening query rejects: caught by the handler's try
LatestInviteFailed(p) ==
    /\ handler[p].pc = "latest"
    /\ Settle(handler, p, Return)
    /\ UNCHANGED <<inviteCache, invites, memberRoles, clock, issued, started, lastPopulate, lastJoin, lastAssign>>

\* ---------------------------------------------------------------- POST /generate-invite
\* The route exists once the ready handler has run setupApiRoutes
GenerateInvite(p, email, roleId) ==
    /\ started
    /\ Free(p)
    /\ Settle(handler, p,
          IF email = NoEmail \/ roleId = NoRole
          THEN Return
          ELSE [IdleFrame EXCEPT !.kind = "issue", !.pc = "existing",
                                 !.email = email, !.reqRole = roleId])
    /\ UNCHANGED <<inviteCache, invites, memberRoles, clock, issued, started, lastPopulate, lastJoin, lastAssign>>

\* Lines 269-291: guild and channel looked up in the client's caches, then
\* createInvite is awaited
TowardsCreate(f, channelOk) ==
    IF channelOk THEN [f EXCEPT !.pc = "createInvite", !.existing = NoCode] ELSE Return

\* The SELECT by email resolves; rows[0], if any, is the existing invite.  A
\* valid one is reused (the email is sent, 200); a lapsed one is to be expired.
ExistingSelected(p, channelOk) ==
    /\ handler[p].pc = "existing"
    /\ LET f == handler[p]
           rows == PendingByEmail(invites, f.email)
       IN  IF rows = {}
           THEN Settle(handler, p, TowardsCreate(f, channelOk))
           ELSE \E i \in rows :
                  LET g == [f EXCEPT !.existing = invites[i].code]
                  IN  Settle(handler, p,
                             IF StillValid(invites[i].createdAt, clock)
                             THEN Return
                             ELSE [g EXCEPT !.pc = "expire"])
    /\ UNCHANGED <<inviteCache, invites, memberRoles, clock, issued, started, lastPopulate, lastJoin, lastAssign>>

\* The UPDATE ... status = 'EXPIRED' runs
ExpiredWritten(p, channelOk) ==
    /\ handler[p].pc = "expire"
    /\ invites' = MarkExpired(invites, handler[p].existing)
    /\ Settle(handler, p, TowardsCreate(handler[p], channelOk))
    /\ UNCHANGED <<inviteCache, memberRoles, clock, issued, started, lastPopulate, lastJoin, lastAssign>>

\* createInvite({unique: true}) resolves with a code never handed out before;
\* createdAt = new Date()
InviteCreated(p) ==
    /\ handler[p].pc = "createInvite"
    /\ issued < MaxCodes
    /\ issued' = issued + 1
    /\ Settle(handler, p,
          [handler[p] EXCEPT !.pc = "insert", !.newCode = issued + 1, !.createdAt = clock])
    /\ UNCHANGED <<inviteCache, invites, memberRoles, clock, started, lastPopulate, lastJoin, lastAssign>>

\* The INSERT runs; the email is sent and the route answers 200
RowInserted(p) ==
    /\ handler[p].pc = "insert"
    /\ LET f == handler[p]
       IN  invites' = InsertPending(invites, f.newCode, f.reqRole, f.email, f.createdAt)
    /\ Settle(handler, p, Return)
    /\ UNCHANGED <<inviteCache, memberRoles, clock, issued, started, lastPopulate, lastJoin, lastAssign>>

\* Any awaited call of the route rejects: caught by its try, answered 500
IssueFailed(p) ==
    /\ handler[p].pc \in {"existing", "expire", "createInvite", "insert"}
    /\ Settle(handler, p, Return)
    /\ UNCHANGED <<inviteCache, invites, memberRoles, clock, issued, started, lastPopulate, lastJoin, lastAssign>>

\* ---------------------------------------------------------------- time
Tick ==
    /\ clock < MaxTime
    /\ clock' = clock + 1
    /\ UNCHANGED <<inviteCache, invites, memberRoles, issued, started, lastPopulate, handler, lastJoin, lastAssign>>

\* ---------------------------------------------------------------- specifications
\* The steps of asignarRolPorInvite, of whichever handler called it
AssignNext(P) ==
    \E p \in P :
        \/ RoleSelected(p)
        \/ \E b \in BotPositions : BotFetched(p, b)
        \/ RoleAdded(p)
        \/ UsedWritten(p)
        \/ AssignFailed(p)

JoinNext(P, G, M, L) ==
    \E p \in P :
        \/ \E g \in G, m \in M, pend \in BOOLEAN : MemberAdd(p, g, m, pend)
        \/ \E coll \in L : JoinFetched(p, coll)
        \/ JoinFetchRejected(p)
        \/ JoinFallback(p)
        \/ JoinFallbackFailed(p)

GateNext(P, M) ==
    \E p \in P :
        \/ \E m \in M, o \in BOOLEAN, n \in BOOLEAN : MemberUpdate(p, m, o, n)
        \/ LatestInviteFound(p)
        \/ LatestInviteFailed(p)

IssueNext(P, R) ==
    \E p \in P :
        \/ \E r \in R : GenerateInvite(p, r[1], r[2])
        \/ \E ok \in BOOLEAN : ExistingSelected(p, ok)
        \/ \E ok \in BOOLEAN : ExpiredWritten(p, ok)
        \/ InviteCreated(p)
        \/ RowInserted(p)
        \/ IssueFailed(p)

ReadyNext(L) ==
    \/ \E coll \in L : ReadyPopulated(coll)
    \/ ReadyPopulateFailed

\* The invites of the notifications: no code, the first and the last code;
\* uses unknown, none and the most
NotifiedCodes == {NoCode, 1, MaxCodes}
NotifiedUses == {Null, 0, MaxUses}
CacheNext(G) ==
    \/ \E g \in G, c \in NotifiedCodes, u \in NotifiedUses : InviteCreate(g, c, u)
    \/ \E g \in G, c \in NotifiedCodes : InviteDelete(g, c)

\* What the platform reports as the guild's invites in Spec: nothing
NoInvites == {<<>>}
\* The request bodies of Spec
Requests == {<<"a@x", "r1">>, <<NoEmail, "r1">>}

\* The bot with its handlers interleaved at their awaits
Next ==
    \/ ReadyNext(NoInvites)
    \/ JoinNext(Procs, {HomeGuild}, {"m1"}, NoInvites)
    \/ GateNext(Procs, {"m1"})
    \/ IssueNext(Procs, Requests)
    \/ AssignNext(Procs)
    \/ Tick

Spec == Init /\ [][Next]_vars

\* ---- one guildMemberAdd listener at a time, over every invite list, from
\* the empty table
NextScan ==
    \/ JoinNext({1}, {HomeGuild}, {"m1"}, Collections)
    \/ \E p \in {1} :
        \/ RoleSelected(p)
        \/ AssignFailed(p)

SpecScan == Init /\ [][NextScan]_vars

\* ---- tables the route can have left behind, drawn as initial states
\* Row i carries code i; the emails alternate
EmailOf(i) == IF i % 2 = 1 THEN "a@x" ELSE "b@x"
DrawnRows(i) ==
    {Row(i, r, EmailOf(i), "PENDING", 0, Null, NoMember) : r \in RoleIds}
    \cup {Row(i, "r1", EmailOf(i), "EXPIRED", 0, Null, NoMember),
          Row(i, "r1", EmailOf(i), "USED", 0, 0, "m1")}
DrawnTables ==
    {t \in SeqsUpTo(UNION {DrawnRows(i) : i \in 1..MaxRows}, MaxRows) :
        \A i \in DOMAIN t : t[i].code = i}

\* The same with rows created at any time up to now
TimedRows(i) ==
    UNION {{Row(i, "r1", EmailOf(i), "PENDING", c, Null, NoMember),
            Row(i, "r1", EmailOf(i), "EXPIRED", c, Null, NoMember),
            Row(i, "r1", EmailOf(i), "USED", c, MaxTime, "m1")} : c \in Times}
TimedTables ==
    {t \in SeqsUpTo(UNION {TimedRows(i) : i \in 1..MaxRows}, MaxRows) :
        \A i \in DOMAIN t : t[i].code = i}

InitDrawn(T, now) ==
    /\ inviteCache = [g \in Guilds |-> NoEntry]
    /\ invites \in T
    /\ memberRoles = {<<invites[i].memberId, invites[i].roleId>> :
                         i \in {j \in DOMAIN invites : invites[j].status = "USED"}}
    /\ clock = now
    /\ issued = Len(invites)
    /\ started = TRUE
    /\ lastPopulate = "cached"
    /\ handler = [p \in Procs |-> IdleFrame]
    /\ lastJoin = NoJoin
    /\ lastAssign = NoAssign

\* ---- one guildMemberAdd listener at a time, over short invite lists and
\* the timed tables
ShortLists == {m \in Collections : Len(m) <= 1 /\ \A i \in DOMAIN m : m[i].code = 1}
NextFallback ==
    \/ JoinNext({1}, {HomeGuild}, {"m1"}, ShortLists)
    \/ AssignNext({1})

SpecFallback == InitDrawn(TimedTables, MaxTime) /\ [][NextFallback]_vars

\* ---- a member joining while another clears the gate, over a drawn table
NextGrant ==
    \/ JoinNext(Procs, {HomeGuild}, {"m1"}, NoInvites)
    \/ GateNext(Procs, {"m2"})
    \/ AssignNext(Procs)

SpecGrant == InitDrawn(DrawnTables, 0) /\ [][NextGrant]_vars

\* ---- invite notifications arriving around and during joins, from start-up
NextCache ==
    \/ ReadyNext(ShortLists)
    \/ CacheNext(Guilds \cup {NoGuild})
    \/ JoinNext({1}, {HomeGuild}, {"m1"}, ShortLists)
    \/ \E p \in {1} :
        \/ RoleSelected(p)
        \/ AssignFailed(p)

SpecCache == Init /\ [][NextCache]_vars

\* ---- two members joining at once, over a drawn table
NextRace ==
    \/ JoinNext(Procs, {HomeGuild}, Members, NoInvites)
    \/ AssignNext(Procs)

SpecRace == InitDrawn(DrawnTables, 0) /\ [][NextRace]_vars

\* ---- two joins of one guild at once, over short invite lists, from start-up
NextTwoJoins ==
    \/ ReadyNext(ShortLists)
    \/ JoinNext(Procs, {HomeGuild}, Members, ShortLists)
    \/ \E p \in Procs :
        \/ RoleSelected(p)
        \/ AssignFailed(p)

SpecTwoJoins == Init /\ [][NextTwoJoins]_vars

\* ---- a member joining and later clearing the gate, one handler at a time,
\* over short invite lists and the timed tables
NextDeferred ==
    \/ JoinNext({1}, {HomeGuild}, {"m1"}, ShortLists)
    \/ GateNext({1}, {"m1"})
    \/ AssignNext({1})

SpecDeferred == InitDrawn(TimedTables, MaxTime) /\ [][NextDeferred]_vars

\* ---- the same handlers, one at a time, over tables in which no invitation
\* has been used or has expired yet
PendingTables == {t \in DrawnTables : \A i \in DOMAIN t : t[i].status = "PENDING"}

SpecSequential == InitDrawn(PendingTables, 0) /\ [][NextDeferred]_vars

\* ---- after start-up: one guildMemberAdd listener at a time and the
\* notifications of its guild, over short invite lists
NextNotify ==
    \/ CacheNext({HomeGuild})
    \/ JoinNext({1}, {HomeGuild}, {"m1"}, ShortLists)
    \/ AssignNext({1})

SpecNotify == InitDrawn(PendingTables, 0) /\ [][NextNotify]_vars

\* ---- the same two joins with every awaited call settling in the end: a
\* handler suspended at an await is resumed, by the call's result or by its
\* failure
Resumes(p) ==
    \/ \E coll \in NoInvites : JoinFetched(p, coll)
    \/ JoinFetchRejected(p)
    \/ JoinFallback(p)
    \/ JoinFallbackFailed(p)
    \/ RoleSelected(p)
    \/ \E botPos \in BotPositions : BotFetched(p, botPos)
    \/ RoleAdded(p)
    \/ UsedWritten(p)
    \/ AssignFailed(p)

SpecSettling ==
    /\ InitDrawn(DrawnTables, 0)
    /\ [][NextRace]_vars
    /\ \A p \in Procs : WF_vars(Resumes(p))

\* ================================================================ claims
\* The use count of code c in snapshot m, 0 for a code m does not hold
UsesIn(m, c) == IF MapHas(m, c) THEN UsesOrZero(MapGet(m, c)) ELSE 0
\* The codes of new whose use count is above their count in old
Risen(old, new) == {c \in Codes : MapHas(new, c) /\ UsesIn(new, c) > UsesIn(old, c)}
\* The codes of old that new no longer has
Gone(old, new) == {c \in Codes : MapHas(old, c) /\ ~MapHas(new, c)}

\* C1: whenever a join has compared snapshots old and new in which exactly one
\* code's use count rose (a code that old does not hold counting 0 uses there)
\* and no code of old is missing from new, the usedCode it reached is that code.
C1_SingleIncrementAttributed ==
    lastJoin.result = "attributed" =>
        \A c \in Codes :
            (Risen(lastJoin.old, lastJoin.new) = {c} /\ Gone(lastJoin.old, lastJoin.new) = {})
                => lastJoin.usedCode = c

\* A join attributed the one risen code, which is not the first invite of
\* the fetched list
C1_Witness ==
    /\ lastJoin.result = "attributed"
    /\ Len(lastJoin.new) >= 2
    /\ Len(lastJoin.old) >= 2
    /\ Gone(lastJoin.old, lastJoin.new) = {}
    /\ Risen(lastJoin.old, lastJoin.new) = {lastJoin.usedCode}
    /\ lastJoin.new[1].code /= lastJoin.usedCode

\* C2: whenever a join has compared snapshots old and new in which exactly one
\* code of old is missing from new and no code's use count rose, the usedCode
\* it reached is the missing code.
C2_VanishedAttributed ==
    lastJoin.result = "attributed" =>
        \A c \in Codes :
            (Gone(lastJoin.old, lastJoin.new) = {c} /\ Risen(lastJoin.old, lastJoin.new) = {})
                => lastJoin.usedCode = c

\* A join attributed the one vanished code, which was not the first entry of
\* the cached snapshot, while another invite stayed listed
C2_Witness ==
    /\ lastJoin.result = "attributed"
    /\ Len(lastJoin.old) >= 2
    /\ Len(lastJoin.new) >= 1
    /\ Risen(lastJoin.old, lastJoin.new) = {}
    /\ Gone(lastJoin.old, lastJoin.new) = {lastJoin.usedCode}
    /\ lastJoin.old[1].code /= lastJoin.usedCode

\* Slot p's guildMemberAdd listener settles its usedCode in this step
Attributes(p) ==
    /\ handler[p].kind = "join"
    /\ handler[p].pc \in {"fetch", "fallback"}
    /\ handler'[p].pc \notin {"fetch", "fallback"}
    /\ lastJoin'.result = "attributed"

\* The codes of the PENDING rows no other PENDING row was created after
LatestPendingCodes(t) ==
    {t[i].code : i \in {k \in DOMAIN t :
        /\ t[k].status = "PENDING"
        /\ ~\E j \in DOMAIN t : t[j].status = "PENDING" /\ t[j].createdAt > t[k].createdAt}}

\* C3: a join whose two scans found no code takes as usedCode the code of a
\* PENDING row with the latest creation time; it stays without a code when the
\* table holds no PENDING row or the query failed.
C3_FallbackMostRecentPending ==
    [][\A p \in Procs :
         (Attributes(p) /\ handler[p].pc = "fallback") =>
            /\ lastJoin'.fallback /= "skipped"
            /\ lastJoin'.fallback = "failed" => lastJoin'.usedCode = NoCode
            /\ lastJoin'.fallback /= "failed" =>
                 IF LatestPendingCodes(invites) = {}
                 THEN lastJoin'.usedCode = NoCode
                 ELSE lastJoin'.usedCode \in LatestPendingCodes(invites)]_vars

\* The fallback took the later created of two PENDING rows, a row that is
\* not the last of the table
C3_Witness ==
    /\ lastJoin.result = "attributed"
    /\ lastJoin.fallback = "found"
    /\ \E i, j \in DOMAIN invites :
         /\ i < j
         /\ invites[i].status = "PENDING" /\ invites[j].status = "PENDING"
         /\ invites[i].createdAt > invites[j].createdAt
         /\ lastJoin.usedCode = invites[i].code

\* Slot p's asignarRolPorInvite gets its UPDATE ... status='USED' through in
\* this step
WritesUsed(p) ==
    /\ handler[p].pc = "update"
    /\ handler'[p].pc /= "update"
    /\ lastAssign'.outcome = "assigned"

\* C4: the UPDATE ... status='USED' of a role grant changes only rows that are
\* PENDING when it runs: a row that is USED or EXPIRED by then, also one that
\* changed after the grant's SELECT saw it PENDING, keeps its status, usedAt
\* and memberId.
C4_MarkUsedOnlyPending ==
    [][\A p \in Procs :
         WritesUsed(p) =>
            \A i \in DOMAIN invites :
                invites[i].status /= "PENDING" =>
                    /\ invites'[i].status = invites[i].status
                    /\ invites'[i].usedAt = invites[i].usedAt
                    /\ invites'[i].memberId = invites[i].memberId]_vars

\* The PENDING rows of email e that new Date() < expiresAt holds for at time at
Unexpired(t, e, at) == {i \in PendingByEmail(t, e) : StillValid(t[i].createdAt, at)}

\* C5: a request of the route for an email adds no row while a PENDING row
\* of that email is within its TTL (it answers with the existing code); with
\* only lapsed PENDING rows it sets the selected one EXPIRED and then inserts
\* one PENDING row for the email; with no PENDING row it goes straight to
\* creating and inserting one.  (A step may also end the request with 500.)
C5_ReuseOrExpireThenInsert ==
    [][\A p \in Procs :
         (handler[p].kind = "issue" /\ handler'[p] /= handler[p]) =>
            LET f == handler[p]
                pend == PendingByEmail(invites, f.email)
                live == Unexpired(invites, f.email, clock)
            IN  /\ (f.pc = "existing" /\ live /= {}) =>
                       handler'[p].pc = "idle" /\ invites' = invites
                /\ (f.pc = "existing" /\ pend /= {} /\ live = {}) =>
                       handler'[p].pc \in {"expire", "idle"}
                /\ (f.pc = "existing" /\ pend = {}) =>
                       handler'[p].pc \in {"createInvite", "idle"}
                /\ (f.pc = "expire" /\ invites' /= invites) =>
                       /\ invites' = MarkExpired(invites, f.existing)
                       /\ PendingByEmail(invites', f.email) = {}
                /\ (f.pc = "insert" /\ invites' /= invites) =>
                       /\ live = {}
                       /\ invites' = InsertPending(invites, f.newCode, f.reqRole,
                                                   f.email, f.createdAt)]_vars

\* C6: asignarRolPorInvite returns without a grant and without a write, the
\* row left as it is, when the row's role is not among the guild's roles or
\* its position is at or above the bot's highest position; the only steps that
\* add a role or write the table are those of a call whose role is in the
\* guild and below the position the bot was fetched with.
C6_NoGrantWithoutRoleOrRank ==
    [][\A p \in Procs :
         handler'[p] /= handler[p] =>
            /\ (handler[p].pc = "select"
                /\ \E i \in PendingByCode(invites, handler[p].code) :
                       invites[i].roleId \notin GuildRoles) =>
                  handler'[p].pc = "idle"
            /\ handler[p].pc \in {"select", "fetchBot"} =>
                  /\ invites' = invites
                  /\ memberRoles' = memberRoles
                  /\ \A i \in PendingByCode(invites, handler[p].code) :
                         invites'[i].status = "PENDING"
            /\ handler'[p].pc = "addRole" =>
                  /\ handler'[p].roleId \in GuildRoles
                  /\ RolePosition(handler'[p].roleId) < handler'[p].botPos
            /\ (invites' /= invites \/ memberRoles' /= memberRoles) =>
                  /\ handler[p].pc \in {"addRole", "update"}
                  /\ handler[p].roleId \in GuildRoles
                  /\ RolePosition(handler[p].roleId) < handler[p].botPos]_vars

\* A call returned on the role's position: the member holds no role and the
\* row of the code is still PENDING
C6_Witness ==
    /\ lastAssign.outcome = "hierarchy"
    /\ \E i \in DOMAIN invites :
         /\ invites[i].code = lastAssign.code
         /\ invites[i].status = "PENDING"
         /\ <<lastAssign.member, invites[i].roleId>> \notin memberRoles

\* C7: in every step, whichever handlers are in flight, a row that changes
\* status was PENDING and becomes USED or EXPIRED.
C7_StatusOnlyLeavesPending ==
    [][\A i \in DOMAIN invites :
         (i \in DOMAIN invites' /\ invites'[i].status /= invites[i].status) =>
            /\ invites[i].status = "PENDING"
            /\ invites'[i].status \in {"USED", "EXPIRED"}]_vars

\* C8: the table never holds two PENDING rows with the same email.
C8_OnePendingPerEmail ==
    \A i, j \in DOMAIN invites :
        (/\ invites[i].status = "PENDING"
         /\ invites[j].status = "PENDING"
         /\ invites[i].email = invites[j].email) => i = j

\* C9: the step in which a join settles its usedCode, by either scan, by the
\* fallback query or with no code, for a pending member or not, leaves as the
\* guild's cache entry exactly the fetched list (uses null read as 0).
C9_CacheReplacedByFetched ==
    [][\A p \in Procs :
         Attributes(p) =>
            inviteCache'[handler[p].guild] = CacheEntry(ToUsesMap(lastJoin'.new))]_vars

\* A join found no code at all and still replaced the cached snapshot by
\* the different, non-empty list it had fetched
C9_Witness ==
    /\ lastJoin.result = "attributed"
    /\ lastJoin.usedCode = NoCode
    /\ lastJoin.fallback = "empty"
    /\ lastJoin.new /= <<>>
    /\ lastJoin.old /= <<>>
    /\ ToUsesMap(lastJoin.new) /= lastJoin.old
    /\ inviteCache[HomeGuild] = CacheEntry(ToUsesMap(lastJoin.new))

\* C10: no rejected call leaves a guildMemberAdd or guildMemberUpdate
\* listener: a listener whose invites.fetch() rejected ends like any other,
\* with the guild's cache entry as it was.
C10_NoRejectionLeavesListener ==
    lastJoin.result /= "rejected"

\* The handler in slot p takes this step (every step of a handler moves its pc)
Steps(p) == handler'[p].pc /= handler[p].pc

\* C11: no step of a guildMemberAdd listener whose member is pending adds a
\* role or writes the table, whichever code it reached: the listener goes from
\* its fetch to the fallback query or to its return and never calls
\* asignarRolPorInvite; the cache entry of its guild is all it changes.
C11_PendingJoinOnlyRefreshes ==
    [][\A p \in Procs :
         (handler[p].kind = "join" /\ handler[p].pending /\ Steps(p)) =>
            /\ invites' = invites
            /\ memberRoles' = memberRoles
            /\ handler'[p].pc \in {"fallback", "idle"}
            /\ \A g \in Guilds \ {handler[p].guild} : inviteCache'[g] = inviteCache[g]
            /\ <<clock', issued', started'>> = <<clock, issued, started>>]_vars

\* A pending member's join reached the code of a PENDING row and returned:
\* nothing is running, no grant was tried, the row is PENDING, the cache
\* entry is the fetched list
C11_Witness ==
    /\ lastJoin.result = "attributed"
    /\ lastJoin.pending
    /\ lastJoin.usedCode /= NoCode
    /\ lastAssign = NoAssign
    /\ \A p \in Procs : handler[p].pc = "idle"
    /\ \E i \in DOMAIN invites :
         invites[i].code = lastJoin.usedCode /\ invites[i].status = "PENDING"
    /\ inviteCache[HomeGuild] = CacheEntry(ToUsesMap(lastJoin.new))

\* C12: the step in which a guildMemberAdd listener ends its attribution with
\* no code is its last: the listener returns there, pending or not, without
\* calling asignarRolPorInvite, with no role added and every row as it was.
C12_NoCodeNoGrant ==
    [][\A p \in Procs :
         (Attributes(p) /\ lastJoin'.usedCode = NoCode) =>
            /\ handler'[p].pc = "idle"
            /\ invites' = invites
            /\ memberRoles' = memberRoles
            /\ lastAssign' = lastAssign]_vars

\* A join of a member who is not pending found no code, though the table
\* has rows (none PENDING), and returned with no grant tried
C12_Witness ==
    /\ lastJoin.result = "attributed"
    /\ lastJoin.usedCode = NoCode
    /\ lastJoin.fallback = "empty"
    /\ ~lastJoin.pending
    /\ invites /= <<>>
    /\ lastAssign = NoAssign
    /\ \A p \in Procs : handler[p].pc = "idle"

\* C13: asignarRolPorInvite reaches its UPDATE only from a roles.add that
\* succeeded, so the member holds the role whenever the UPDATE is pending or
\* runs; a rejected roles.add ends the call with no write; a rejected UPDATE
\* ends it with the role kept and the row of the code still PENDING.
C13_GrantThenWrite ==
    [][\A p \in Procs :
         Steps(p) =>
            LET f == handler[p]
            IN  /\ handler'[p].pc = "update" =>
                      /\ f.pc = "addRole"
                      /\ <<f.member, f.roleId>> \in memberRoles'
                      /\ invites' = invites
                /\ f.pc = "update" => <<f.member, f.roleId>> \in memberRoles
                /\ invites' /= invites =>
                      /\ f.pc = "update"
                      /\ invites' = MarkUsed(invites, f.code, f.member, clock)
                /\ (f.pc = "addRole" /\ handler'[p].pc = "idle") =>
                      /\ invites' = invites
                      /\ memberRoles' = memberRoles
                /\ (f.pc = "update" /\ invites' = invites) =>
                      /\ lastAssign'.outcome = "writeFailed"
                      /\ memberRoles' = memberRoles
                      /\ <<f.member, f.roleId>> \in memberRoles'
                      /\ \E i \in DOMAIN invites' :
                             invites'[i].code = f.code /\ invites'[i].status = "PENDING"]_vars

\* A call's UPDATE was rejected after its roles.add had gone through: the
\* member holds the role of a row that is still PENDING, in a table where
\* no row is USED
C13_Witness ==
    /\ lastAssign.outcome = "writeFailed"
    /\ \A i \in DOMAIN invites : invites[i].status /= "USED"
    /\ \E i \in DOMAIN invites :
         /\ invites[i].code = lastAssign.code
         /\ invites[i].status = "PENDING"
         /\ <<lastAssign.member, invites[i].roleId>> \in memberRoles

\* C14: a join that compared snapshots in which some code's use count rose
\* took a risen code as usedCode, also when a cached code was missing from the
\* fetched list, and did not query the table; with no risen code and a missing
\* one it took a missing code without querying; it queried the table only
\* when no code had risen and none was missing.
C14_StrictPriority ==
    lastJoin.result = "attributed" =>
        LET risen == Risen(lastJoin.old, lastJoin.new)
            gone  == Gone(lastJoin.old, lastJoin.new)
        IN  /\ risen /= {} => lastJoin.usedCode \in risen /\ lastJoin.fallback = "skipped"
            /\ (risen = {} /\ gone /= {}) =>
                   lastJoin.usedCode \in gone /\ lastJoin.fallback = "skipped"
            /\ lastJoin.fallback /= "skipped" => risen = {} /\ gone = {}

\* A join took the risen code although the first entry of the cached
\* snapshot was missing from the fetched list
C14_Witness ==
    /\ lastJoin.result = "attributed"
    /\ Len(lastJoin.old) >= 2
    /\ Risen(lastJoin.old, lastJoin.new) /= {}
    /\ Gone(lastJoin.old, lastJoin.new) = {lastJoin.old[1].code}
    /\ lastJoin.usedCode \in Risen(lastJoin.old, lastJoin.new)
    /\ MapHas(lastJoin.old, lastJoin.usedCode)

\* The places of the fetched list whose invite has more uses than the cached
\* snapshot holds for its code, a code the snapshot lacks counting 0 there
RisenAt(old, new) ==
    {i \in DOMAIN new : UsesIn(new, new[i].code) > UsesIn(old, new[i].code)}

\* C15 as stated: a usedCode taken from the fetched list by the increment
\* scan is a code of the cached snapshot too; a code the cached snapshot lacks
\* is never the increment scan's result.
C15_IncrementOnlyCommonCodes ==
    (lastJoin.result = "attributed" /\ lastJoin.fallback = "skipped"
     /\ MapHas(lastJoin.new, lastJoin.usedCode)) =>
        MapHas(lastJoin.old, lastJoin.usedCode)

\* C15 amended: the increment scan goes through every invite of the fetched
\* list, reading the cached count of a code the snapshot lacks as 0, and
\* returns the first whose use count is above the cached one: a code of the
\* fetched list that the snapshot lacks is returned exactly when it has at
\* least one use and no invite before it in the list has risen.
C15_IncrementScansFetchedList ==
    lastJoin.result = "attributed" =>
        LET risen == RisenAt(lastJoin.old, lastJoin.new)
        IN  /\ risen /= {} => lastJoin.usedCode = lastJoin.new[Min(risen)].code
            /\ risen = {} => ~MapHas(lastJoin.new, lastJoin.usedCode)
            /\ \A i \in DOMAIN lastJoin.new :
                 (~MapHas(lastJoin.old, lastJoin.new[i].code)
                  /\ \A j \in 1..(i - 1) : j \notin risen) =>
                    (lastJoin.usedCode = lastJoin.new[i].code
                        <=> UsesIn(lastJoin.new, lastJoin.new[i].code) > 0)

\* A join took a used code that the cached snapshot, which is not empty,
\* does not hold, while a code of both snapshots kept its count
C15_Witness ==
    /\ lastJoin.result = "attributed"
    /\ lastJoin.old /= <<>>
    /\ Len(lastJoin.new) >= 2
    /\ MapHas(lastJoin.new, lastJoin.usedCode)
    /\ ~MapHas(lastJoin.old, lastJoin.usedCode)
    /\ Gone(lastJoin.old, lastJoin.new) = {}

\* C16: the step in which populateGuildInvites ends on a rejected fetch leaves
\* every guild's cache entry as it was, a guild without an entry still
\* without one, and the ready handler goes on to set up the routes; a
\* guildMemberAdd listener that reads the cache of a guild without an entry
\* gets the empty map.
C16_PopulateFailureKeepsCache ==
    [][/\ (lastPopulate = "none" /\ lastPopulate' = "failed") =>
            /\ inviteCache' = inviteCache
            /\ handler' = handler
            /\ started'
       /\ \A p \in Procs :
            (Steps(p) /\ handler'[p].kind = "join" /\ handler'[p].pc = "fetch") =>
                handler'[p].old = IF inviteCache[handler'[p].guild].has
                                  THEN inviteCache[handler'[p].guild].map
                                  ELSE <<>>]_vars

\* populateGuildInvites failed, the guild has no cache entry, the routes
\* are up, and a join that read the missing entry as the empty map is
\* awaiting its fetch
C16_Witness ==
    /\ lastPopulate = "failed"
    /\ started
    /\ ~inviteCache[HomeGuild].has
    /\ \E p \in Procs :
         /\ handler[p].kind = "join"
         /\ handler[p].pc = "fetch"
         /\ handler[p].guild = HomeGuild
         /\ handler[p].old = <<>>

\* A step that changes the cache and is neither a handler's nor the end of
\* populateGuildInvites: an inviteCreate or inviteDelete notification
Notified ==
    /\ inviteCache' /= inviteCache
    /\ lastPopulate' = lastPopulate
    /\ \A p \in Procs : ~Steps(p)

\* Code c is held alike, with the same uses or not at all, by maps m and n
SameEntry(m, n, c) ==
    /\ MapHas(m, c) <=> MapHas(n, c)
    /\ MapHas(m, c) => MapGet(m, c) = MapGet(n, c)

\* C17: a notification that changes the cache changes one code's entry of one
\* guild: inviteCreate leaves the code in the guild's map with a number of
\* uses (making the map if the guild had none), inviteDelete takes a code the
\* map held out of it; every other code of the guild is held as before, in
\* the same order, every other guild's entry is as before, and a delete for a
\* code the map lacks or for a guild without a map is no change at all.
C17_NotificationTouchesOneEntry ==
    [][Notified =>
         \E g \in Guilds, c \in Codes :
            LET m == inviteCache[g].map
                n == inviteCache'[g].map
            IN  /\ \A g2 \in Guilds \ {g} : inviteCache'[g2] = inviteCache[g2]
                /\ inviteCache'[g].has
                /\ DistinctKeys(n)
                /\ \A c2 \in Codes \ {c} : SameEntry(m, n, c2)
                /\ MapDelete(n, c) = MapDelete(m, c)
                /\ \/ MapHas(n, c) /\ MapGet(n, c) \in 0..MaxUses
                   \/ ~MapHas(n, c) /\ MapHas(m, c) /\ inviteCache[g].has]_vars

\* Notifications alone have made the home guild's map, which never came
\* from a fetch, hold the last code before the first while the other guild's
\* map holds one code
C17_Witness ==
    /\ lastPopulate = "none"
    /\ lastJoin = NoJoin
    /\ Len(inviteCache[HomeGuild].map) = 2
    /\ inviteCache[HomeGuild].map[1].code = MaxCodes
    /\ inviteCache[HomeGuild].map[2] = Entry(1, MaxUses)
    /\ Len(inviteCache["g2"].map) = 1

\* C18: a guildMemberUpdate listener is in flight only for an event whose
\* pending flag went from true to false; when its query returns no row it
\* returns, and its query step adds no role and writes no row either way; no
\* step of the listener, its role grant included, changes the invite cache,
\* and it holds no snapshot of it.
C18_GateClearOnlyOnFlip ==
    [][\A p \in Procs :
         /\ handler'[p].kind = "gate" =>
                /\ handler'[p].wasPending /\ ~handler'[p].pending
                /\ handler'[p].old = <<>> /\ ~handler'[p].oldIsCache
         /\ (Steps(p) /\ (handler[p].kind = "gate" \/ handler'[p].kind = "gate")) =>
                inviteCache' = inviteCache
         /\ (Steps(p) /\ handler[p].kind = "gate" /\ handler[p].pc = "latest") =>
                /\ invites' = invites
                /\ memberRoles' = memberRoles
                /\ LatestInvite(invites, handler[p].member) = {} =>
                       handler'[p].pc = "idle" /\ lastAssign' = lastAssign]_vars

\* A member who never joined in this run was granted a role on clearing
\* the gate, and the row was written for that member, with no cache entry
\* made or read
C18_Witness ==
    /\ lastJoin = NoJoin
    /\ ~inviteCache[HomeGuild].has
    /\ lastAssign.outcome = "assigned"
    /\ lastAssign.member = "m2"
    /\ \E i \in DOMAIN invites :
         /\ invites[i].code = lastAssign.code
         /\ invites[i].status = "USED"
         /\ invites[i].memberId = "m2"

\* Slots p and q run role grants of two different joined members for one code,
\* both past roles.add and before their UPDATE
BothGranted(p, q) ==
    /\ p /= q
    /\ handler[p].kind = "join" /\ handler[q].kind = "join"
    /\ handler[p].pc = "update" /\ handler[q].pc = "update"
    /\ handler[p].code = handler[q].code
    /\ handler[p].member /= handler[q].member

\* C19: two joins that took the same code can both be between roles.add and
\* the UPDATE; whenever they are, both found the row PENDING, neither has
\* written it, and both members hold the row's role.
C19_TwoGrantsOneCode ==
    \A p, q \in Procs :
        BothGranted(p, q) =>
            \E i \in DOMAIN invites :
                /\ invites[i].code = handler[p].code
                /\ invites[i].status = "PENDING"
                /\ invites[i].memberId = NoMember
                /\ handler[p].roleId = invites[i].roleId
                /\ handler[q].roleId = invites[i].roleId
                /\ <<handler[p].member, invites[i].roleId>> \in memberRoles
                /\ <<handler[q].member, invites[i].roleId>> \in memberRoles

\* Both joins are past roles.add for the one PENDING row of the table
C19_Witness ==
    /\ BothGranted(1, 2)
    /\ Len(invites) = 1
    /\ invites[1].status = "PENDING"
    /\ invites[1].code = handler[1].code
    /\ memberRoles = {<<"m1", invites[1].roleId>>, <<"m2", invites[1].roleId>>}

\* C20: two guildMemberAdd listeners of one guild can hold the same snapshot,
\* read before either has refreshed the cache, and both take the same code
\* from it.  A listener awaiting its fetch keeps the snapshot it read when
\* another listener refreshes the cache, and the code a listener takes by its
\* scans is that of its own snapshot and fetched list.
C20_SnapshotKeptAcrossRefresh ==
    [][\A p \in Procs :
         (Steps(p) /\ handler[p].kind = "join") =>
            /\ \A q \in Procs \ {p} :
                 (handler[q].kind = "join" /\ handler[q].pc = "fetch") =>
                    /\ handler'[q].old = handler[q].old
                    /\ handler'[q].pc = "fetch"
            /\ (Attributes(p) /\ lastJoin'.fallback = "skipped") =>
                 /\ lastJoin'.old = handler[p].old
                 /\ lastJoin'.usedCode = ScanCode(handler[p].old, lastJoin'.new)]_vars

\* Both listeners have taken the same code by their scans (the table is
\* empty) from the same snapshot, one the cache has been refreshed away from,
\* for two different members
C20_Witness ==
    /\ invites = <<>>
    /\ handler[1].kind = "join" /\ handler[2].kind = "join"
    /\ handler[1].pc = "select" /\ handler[2].pc = "select"
    /\ handler[1].member /= handler[2].member
    /\ handler[1].code = handler[2].code
    /\ handler[1].old = handler[2].old
    /\ handler[1].old /= <<>>
    /\ inviteCache[HomeGuild].map /= handler[1].old

\* Row i has no member and is PENDING or USED, and no such row was created
\* after it
LatestUnclaimed(t, i) ==
    /\ t[i].memberId = NoMember /\ t[i].status \in {"PENDING", "USED"}
    /\ \A j \in DOMAIN t :
         (t[j].memberId = NoMember /\ t[j].status \in {"PENDING", "USED"}) =>
            t[j].createdAt <= t[i].createdAt
\* The rows the post-screening query may choose from for member m
LookupCandidates(t, m) ==
    {i \in DOMAIN t :
        \/ t[i].memberId = m
        \/ /\ t[i].status = "PENDING"
           /\ \E h \in DOMAIN t : LatestUnclaimed(t, h) /\ t[h].email = t[i].email}

\* C21: the guildMemberUpdate listener takes its code from its own query of
\* the table: the code it passes to asignarRolPorInvite is that of a row whose
\* member is the member, or of a PENDING row with the email of the latest
\* created row that has no member and is PENDING or USED; with no such row it
\* returns.  The code the member's join had reached is not looked at, and the
\* two can differ.
C21_GateClearLooksUpAgain ==
    [][\A p \in Procs :
         (Steps(p) /\ handler[p].kind = "gate" /\ handler[p].pc = "latest") =>
            /\ handler'[p].pc \in {"select", "idle"}
            /\ handler'[p].pc = "select" =>
                 \E i \in LookupCandidates(invites, handler[p].member) :
                    handler'[p].code = invites[i].code
            /\ LookupCandidates(invites, handler[p].member) = {} => handler'[p].pc = "idle"
            /\ lastJoin' = lastJoin]_vars

\* The member's join, deferred for screening, had reached a code by its
\* scans; on clearing the gate the listener passes the code of another row,
\* PENDING as well, to the role grant
C21_Witness ==
    /\ lastJoin.result = "attributed"
    /\ lastJoin.pending
    /\ lastJoin.fallback = "skipped"
    /\ lastJoin.usedCode /= NoCode
    /\ \E p \in Procs :
         /\ handler[p].kind = "gate"
         /\ handler[p].pc = "select"
         /\ handler[p].member = "m1"
         /\ handler[p].code /= lastJoin.usedCode
         /\ \E i, j \in DOMAIN invites :
              /\ invites[i].code = lastJoin.usedCode /\ invites[i].status = "PENDING"
              /\ invites[j].code = handler[p].code /\ invites[j].status = "PENDING"

\* C22: with one handler at a time, a role is given only for a code whose
\* row is PENDING at that moment, the UPDATE that follows leaves the row USED
\* with the member and the time, and from then on a handler that reaches the
\* code of a USED row returns at the SELECT: it gives no role and the row's
\* usedAt and memberId stay as they are.
C22_OneGrantPerRecord ==
    [][\A p \in Procs :
         /\ (Steps(p) /\ handler[p].pc = "addRole" /\ handler'[p].pc = "update") =>
               \E i \in DOMAIN invites :
                  invites[i].code = handler[p].code /\ invites[i].status = "PENDING"
         /\ (Steps(p) /\ handler[p].pc = "update" /\ lastAssign'.outcome = "assigned") =>
               \A i \in DOMAIN invites :
                  invites[i].code = handler[p].code =>
                     /\ invites'[i].status = "USED"
                     /\ invites'[i].memberId = handler[p].member
                     /\ invites'[i].usedAt = clock
         /\ \A i \in DOMAIN invites :
               invites[i].status = "USED" =>
                  /\ i \in DOMAIN invites'
                  /\ invites'[i].usedAt = invites[i].usedAt
                  /\ invites'[i].memberId = invites[i].memberId
                  /\ (Steps(p) /\ handler[p].pc = "select"
                         /\ handler[p].code = invites[i].code) =>
                        /\ handler'[p].pc = "idle"
                        /\ memberRoles' = memberRoles
                        /\ invites' = invites]_vars

\* A row was marked USED by a grant of this run, and a later handler that
\* reached the same code has returned at the SELECT
C22_Witness ==
    /\ lastAssign.outcome = "notPending"
    /\ \A p \in Procs : handler[p].pc = "idle"
    /\ \E i \in DOMAIN invites :
         /\ invites[i].code = lastAssign.code
         /\ invites[i].status = "USED"
         /\ invites[i].memberId = lastAssign.member
         /\ <<invites[i].memberId, invites[i].roleId>> \in memberRoles

\* Every row that carries a member carries one who holds the row's role
StampedOnlyGranted ==
    \A i \in DOMAIN invites :
       invites[i].memberId /= NoMember =>
          <<invites[i].memberId, invites[i].roleId>> \in memberRoles

\* C23: a row that carries a memberId carries a member who holds the row's
\* role, in every state and with handlers interleaved: the UPDATE that writes
\* the memberId is sent by the handler that has just given that role to that
\* member.  The role a handler goes on with is the roleId of a row its SELECT
\* found PENDING under the attributed code, and roles are given by no other
\* step and to no other member.
C23_StampOnlyAfterGrant ==
    /\ []StampedOnlyGranted
    /\ [][\A p \in Procs :
            /\ (Steps(p) /\ handler[p].pc = "select" /\ handler'[p].pc = "fetchBot") =>
                  \E i \in DOMAIN invites :
                     /\ invites[i].code = handler[p].code
                     /\ invites[i].status = "PENDING"
                     /\ invites[i].roleId = handler'[p].roleId
            /\ (Steps(p) /\ handler[p].pc = "addRole" /\ handler'[p].pc = "update") =>
                  /\ memberRoles' = memberRoles \cup {<<handler[p].member, handler[p].roleId>>}
                  /\ handler'[p].roleId = handler[p].roleId
                  /\ invites' = invites
            /\ (Steps(p) /\ handler[p].pc = "update" /\ invites' /= invites) =>
                  /\ <<handler[p].member, handler[p].roleId>> \in memberRoles
                  /\ \A i \in DOMAIN invites :
                        invites'[i] /= invites[i] =>
                           /\ invites[i].code = handler[p].code
                           /\ invites[i].roleId = handler[p].roleId
                           /\ invites'[i].memberId = handler[p].member
            /\ memberRoles' /= memberRoles =>
                  \E q \in Procs : Steps(q) /\ handler[q].pc = "addRole"]_vars

\* A handler has given a role to the second member and stamped the row with
\* that member, while another handler is still at work
C23_Witness ==
    /\ lastAssign.outcome = "assigned"
    /\ lastAssign.member = "m2"
    /\ \E i \in DOMAIN invites :
         /\ invites[i].code = lastAssign.code
         /\ invites[i].memberId = "m2"
         /\ invites[i].status = "USED"
         /\ <<"m2", invites[i].roleId>> \in memberRoles
    /\ \E p \in Procs : handler[p].pc /= "idle"

\* C24: when a guildMemberAdd listener writes the cache after its awaited
\* fallback query, no code that came into the guild's cache since the
\* listener's fetch resolved (by an inviteCreate notification, or by the write
\* of a listener that fetched later) is lost from the cache.
C24_CacheWriteKeepsLaterEntries ==
    [][\A p \in Procs :
         (Steps(p) /\ handler[p].kind = "join" /\ handler[p].pc = "fallback") =>
            \A c \in Codes :
               (/\ MapHas(inviteCache[handler[p].guild].map, c)
                /\ c \notin handler[p].cachedAtFetch) =>
                  MapHas(inviteCache'[handler[p].guild].map, c)]_vars

\* The awaits of a guildMemberAdd listener in the order of the source
AwaitRank(pc) ==
    CASE pc = "fetch"    -> 1
      [] pc = "fallback" -> 2
      [] pc = "select"   -> 3
      [] pc = "fetchBot" -> 4
      [] pc = "addRole"  -> 5
      [] pc = "update"   -> 6
      [] OTHER           -> 0
\* The outcomes named for a join that apply to the step by which slot p ends
\* its guildMemberAdd listener
OutcomesOf(p) ==
    {o \in {"granted", "unresolved", "deferred", "refused"} :
        \/ /\ o = "granted"
           /\ <<handler[p].member, handler[p].roleId>> \in memberRoles'
           /\ handler[p].pc = "update"
        \/ /\ o = "unresolved"
           /\ handler[p].pc \in {"fetch", "fallback"}
           /\ lastJoin'.result = "attributed" /\ lastJoin'.usedCode = NoCode
        \/ /\ o = "deferred"
           /\ handler[p].pc \in {"fetch", "fallback"}
           /\ lastJoin'.result = "attributed" /\ lastJoin'.usedCode /= NoCode
           /\ lastJoin'.pending
        \/ /\ o = "refused"
           /\ handler[p].pc \in {"select", "fetchBot", "addRole", "update"}
           /\ lastAssign'.outcome \in {"notPending", "roleMissing", "hierarchy",
                                       "error", "writeFailed"}}
\* Every guildMemberAdd listener that has started ends
C25_JoinsEnd ==
    \A p \in Procs : (handler[p].kind = "join") ~> (handler[p].pc = "idle")
\* No await is gone through twice: a listener only moves on to a later await
\* or ends
C25_NoRetry ==
    [][\A p \in Procs :
         (Steps(p) /\ handler[p].kind = "join") =>
            \/ handler'[p].pc = "idle"
            \/ AwaitRank(handler'[p].pc) > AwaitRank(handler[p].pc)]_vars
\* The step that ends a listener ends it in one of the outcomes, and a refusal
\* has changed neither the member's roles nor the table
C25_OneOutcome ==
    [][\A p \in Procs :
         (Steps(p) /\ handler[p].kind = "join" /\ handler'[p].pc = "idle") =>
            /\ Cardinality(OutcomesOf(p)) = 1
            /\ "refused" \in OutcomesOf(p) =>
                  /\ handler[p].pc /= "update"
                  /\ memberRoles' = memberRoles
                  /\ invites' = invites]_vars

\* C25: with every awaited call settling in the end, every guildMemberAdd
\* listener ends, and it ends in exactly one of: role given, no code found,
\* deferred for screening, or a refusal that changed nothing (row not PENDING,
\* role missing, role too high, error); no await is gone through twice.
C25_JoinEndsInOneOutcome ==
    /\ C25_JoinsEnd
    /\ C25_NoRetry
    /\ C25_OneOutcome

====
